---- MODULE Spec2Model ----
(***************************************************************************)
(* Visual Trace decision engine, action instrumentation wrapper and        *)
(* persistent-device lifecycle coordinator of appwright.                   *)
(*                                                                         *)
(* Encoding of JavaScript values:                                          *)
(*   - undefined is the string "undefined"; the booleans of a union type   *)
(*     (enableScreenshots, trace.screenshots) are "true" / "false";        *)
(*   - an optional config object is a function whose DOMAIN holds the      *)
(*     fields that are present;                                            *)
(*   - a Map is a function whose DOMAIN is the set of keys present;        *)
(*   - a Buffer is a token of Buffers, its SHA-256 digest a token derived  *)
(*     from the content (equal contents, equal digests).                   *)
(***************************************************************************)
EXTENDS Integers, Sequences, FiniteSets, TLC

VARIABLES
    project,          \* testInfo.project.use of the worker: [trace, visualTrace]
    testInfo,         \* the host's TestInfo objects, by object identity
    services,         \* every VisualTraceService constructed so far
    serviceInstance,  \* module-level singleton: index into services, 0 = null
    calls,            \* captureScreenshot invocations suspended at an await
    started,          \* per service: captureScreenshot invocations so far
    fetched,          \* per service: invocations of its takeScreenshot callback
    warnings,         \* console.warn lines written by captureScreenshot
    last,             \* how the most recently settled captureScreenshot ended
    device,           \* the worker's Device: engine handle, sync flags, cursor
    context,          \* PersistentDeviceContext of the worker
    host,             \* the test runner: phase, current attempt, call counters
    ops,              \* prepare/finalize calls suspended at their provider sync
    synced,           \* what the provider's syncTestDetails has received
    steps,            \* boxedStep invocations awaiting their wrapped action
    lastStep,         \* outcome of the most recently completed boxedStep
    lifecycle,        \* runWithLifecycle calls so far; waitForLifecycleToComplete calls
    logged,           \* safeSync's warnings: the kinds of call whose sync was rejected
    devices           \* further Device objects: each one's visualTraceService handle

workerVars ==
    <<device, context, host, ops, synced, steps, lifecycle, logged, devices>>

vars == <<project, testInfo, services, serviceInstance, calls, started,
          fetched, warnings, last, device, context, host, ops, synced, steps,
          lastStep, lifecycle, logged, devices>>

(***************************************************************************)
(* Bounds                                                                  *)
(***************************************************************************)
MaxCalls == 3
MaxQuota == 2
MaxRetry == 2
MaxServices == 2
MaxPolicyCalls == 1
MaxRegistryCalls == 2
MaxAttempts == 2
MaxSteps == 1
MaxPrepare == 3
MaxCoordinatorCalls == 3
MaxOps == 3
MaxWaits == 3
MaxDevices == 2

Undefined == "undefined"
Buffers == {"png-A", "png-B"}
TestIds == {"t1", "t2"}

DefaultMaxScreenshots == 50

(***************************************************************************)
(* Host configuration values                                               *)
(***************************************************************************)
KnownTraceModes ==
    {"on", "off", "retain-on-failure", "on-first-retry", "on-all-retries",
     "retry-with-trace"}

HostTraceModes == KnownTraceModes \cup {"retain-on-first-failure"}

TraceConfigs ==
    {[kind |-> "undefined", mode |-> Undefined, screenshots |-> Undefined]}
    \cup {[kind |-> "string", mode |-> m, screenshots |-> Undefined] :
             m \in HostTraceModes}
    \cup {[kind |-> "object", mode |-> m, screenshots |-> s] :
             m \in HostTraceModes \cup {Undefined},
             s \in {"true", "false", Undefined}}

EnableValues == {"true", "false", "on", "off", "retain-on-failure"}

Statuses == {Undefined, "passed", "failed", "timedOut", "skipped", "interrupted"}

(***************************************************************************)
(* VisualTraceService: construction and the capture policy                 *)
(***************************************************************************)
Field(config, f, default) == IF f \in DOMAIN config THEN config[f] ELSE default

NewService(ti, retryIndex, config) ==
    [testInfo   |-> ti,
     retryIndex |-> retryIndex,
     config     |-> [enableScreenshots |-> Field(config, "enableScreenshots", "retain-on-failure"),
                     maxScreenshots    |-> Field(config, "maxScreenshots", DefaultMaxScreenshots),
                     dedupe            |-> Field(config, "dedupe", TRUE)],
     states     |-> <<>>]

isTestFailing(info) ==
    \/ info.status # Undefined /\ info.status # "passed"
    \/ Len(info.errors) > 0

\* checkConfigMode that takes "retain-on-failure" for "on"
checkConfigModeLenient(config, info, stepFailed) ==
    config.enableScreenshots \in {"true", "on", "retain-on-failure"}

checkConfigMode(config, info, stepFailed) ==
    IF config.enableScreenshots \in {"true", "on"} THEN TRUE
    ELSE IF config.enableScreenshots = "retain-on-failure"
         THEN stepFailed \/ isTestFailing(info)
         ELSE FALSE

\* TraceModeDecision treating "on-first-retry" like "on-all-retries"
TraceModeDecisionAnyRetry(traceMode, config, retryIndex, info, stepFailed) ==
    CASE traceMode = "on"                -> TRUE
      [] traceMode = "retain-on-failure" -> stepFailed \/ isTestFailing(info) \/ retryIndex > 0
      [] traceMode = "on-first-retry"    -> retryIndex > 0
      [] traceMode = "on-all-retries"    -> retryIndex > 0
      [] traceMode = "retry-with-trace"  -> retryIndex > 0
      [] traceMode = "off"               -> FALSE
      [] OTHER                           -> checkConfigMode(config, info, stepFailed)

TraceModeDecision(traceMode, config, retryIndex, info, stepFailed) ==
    CASE traceMode = "on"                -> TRUE
      [] traceMode = "retain-on-failure" -> stepFailed \/ isTestFailing(info) \/ retryIndex > 0
      [] traceMode = "on-first-retry"    -> retryIndex = 1
      [] traceMode = "on-all-retries"    -> retryIndex > 0
      [] traceMode = "retry-with-trace"  -> retryIndex > 0
      [] traceMode = "off"               -> FALSE
      [] OTHER                           -> checkConfigMode(config, info, stepFailed)

\* shouldCaptureScreenshot without the check of trace.screenshots
shouldCaptureIgnoresVeto(config, retryIndex, info, trace, stepFailed) ==
    IF config.enableScreenshots \in {"false", "off"} THEN FALSE
    ELSE IF trace.kind = "undefined" THEN checkConfigMode(config, info, stepFailed)
    ELSE IF trace.kind = "string" \/ (trace.kind = "object" /\ trace.mode # Undefined)
         THEN TraceModeDecision(trace.mode, config, retryIndex, info, stepFailed)
    ELSE checkConfigMode(config, info, stepFailed)

\* shouldCaptureScreenshot consulting the trace mode before enableScreenshots
shouldCaptureTraceFirst(config, retryIndex, info, trace, stepFailed) ==
    IF trace.kind = "undefined" THEN checkConfigMode(config, info, stepFailed)
    ELSE IF trace.kind = "string"
         THEN TraceModeDecision(trace.mode, config, retryIndex, info, stepFailed)
    ELSE IF trace.kind = "object" /\ trace.mode # Undefined
         THEN IF trace.screenshots = "false" THEN FALSE
              ELSE TraceModeDecision(trace.mode, config, retryIndex, info, stepFailed)
    ELSE checkConfigMode(config, info, stepFailed)

shouldCaptureScreenshot(config, retryIndex, info, trace, stepFailed) ==
    IF config.enableScreenshots \in {"false", "off"} THEN FALSE
    ELSE IF trace.kind = "undefined" THEN checkConfigMode(config, info, stepFailed)
    ELSE IF trace.kind = "string"
         THEN TraceModeDecision(trace.mode, config, retryIndex, info, stepFailed)
    ELSE IF trace.kind = "object" /\ trace.mode # Undefined
         THEN IF trace.screenshots = "false" THEN FALSE
              ELSE TraceModeDecision(trace.mode, config, retryIndex, info, stepFailed)
    ELSE checkConfigMode(config, info, stepFailed)

(***************************************************************************)
(* Attempt state registry (the states map of one service)                  *)
(***************************************************************************)
StateKey(testId, retryIndex) == testId \o "#" \o ToString(retryIndex)

KeyOf(svc) == StateKey(testInfo[svc.testInfo].testId, svc.retryIndex)

EmptyState == [screenshotCount |-> 0, dedupeHashes |-> {}]

\* PutState storing one record object shared by every service
PutStateShared(svcs, e, key, st) ==
    [x \in DOMAIN svcs |->
        [svcs[x] EXCEPT !.states = (KeyOf(svcs[x]) :> st) @@ @]]

\* states.set(key, record) on service e; every other map is left alone
PutState(svcs, e, key, st) ==
    [svcs EXCEPT ![e].states = (key :> st) @@ @]

\* getState(): get or create the record of the service's attempt
getState(svcs, e) ==
    IF KeyOf(svcs[e]) \in DOMAIN svcs[e].states
    THEN svcs
    ELSE PutState(svcs, e, KeyOf(svcs[e]), EmptyState)

StateOf(svcs, e) == getState(svcs, e)[e].states[KeyOf(svcs[e])]

\* hasReachedLimit that never reports the limit
hasReachedLimitNever(svcs, e) == FALSE

\* hasReachedLimit with > for >=
hasReachedLimitOffByOne(svcs, e) ==
    /\ svcs[e].config.maxScreenshots # 0
    /\ StateOf(svcs, e).screenshotCount > svcs[e].config.maxScreenshots

hasReachedLimit(svcs, e) ==
    /\ svcs[e].config.maxScreenshots # 0
    /\ StateOf(svcs, e).screenshotCount >= svcs[e].config.maxScreenshots

calculateHash(data) == "sha256:" \o data

\* isDuplicate that ignores config.dedupe
isDuplicateAlways(svcs, e, data) ==
    LET s1 == getState(svcs, e)
        st == StateOf(s1, e)
    IN IF calculateHash(data) \in st.dedupeHashes
       THEN <<TRUE, s1>>
       ELSE <<FALSE,
              PutState(s1, e, KeyOf(s1[e]),
                       [st EXCEPT !.dedupeHashes = @ \cup {calculateHash(data)}])>>

\* isDuplicate that never records the hash
isDuplicateForgets(svcs, e, data) ==
    IF ~svcs[e].config.dedupe THEN <<FALSE, svcs>>
    ELSE <<calculateHash(data) \in StateOf(svcs, e).dedupeHashes, getState(svcs, e)>>

\* isDuplicate(): <<result, services afterwards>>
isDuplicate(svcs, e, data) ==
    IF ~svcs[e].config.dedupe THEN <<FALSE, svcs>>
    ELSE LET s1 == getState(svcs, e)
             st == StateOf(s1, e)
         IN IF calculateHash(data) \in st.dedupeHashes
            THEN <<TRUE, s1>>
            ELSE <<FALSE,
                   PutState(s1, e, KeyOf(s1[e]),
                            [st EXCEPT !.dedupeHashes = @ \cup {calculateHash(data)}])>>

\* state.screenshotCount++ on the record getState() returns
CountScreenshot(svcs, e) ==
    LET s1 == getState(svcs, e)
    IN PutState(s1, e, KeyOf(s1[e]),
                [StateOf(s1, e) EXCEPT !.screenshotCount = @ + 1])

\* a duplicate that is counted before the call returns
SkipDuplicateCounts(svcs, e) == CountScreenshot(svcs, e)

\* the return taken for a duplicate: the record is left as isDuplicate left it
SkipDuplicate(svcs, e) == svcs

ShouldCapture(e, stepFailed) ==
    shouldCaptureScreenshot(services[e].config, services[e].retryIndex,
                            testInfo[services[e].testInfo], project.trace,
                            stepFailed)

\* getScreenshotCount() as a value (the record is created if missing)
ScreenshotCount(e) == StateOf(services, e).screenshotCount

SeenHashes(e) == StateOf(services, e).dedupeHashes

\* the attachments service e delivered to the sink of its TestInfo
AttachedBy(e) ==
    SelectSeq(testInfo[services[e].testInfo].attachments, LAMBDA a : a.by = e)

(***************************************************************************)
(* captureScreenshot                                                       *)
(***************************************************************************)
\* Settle without the catch block: the failure reaches the caller
SettleRethrows(why, failed) ==
    [completion |-> IF failed THEN "threw" ELSE "returned", why |-> why,
     warned |-> FALSE]

\* the try/catch around fetch and attach: a failure is logged, not rethrown
Settle(why, failed) ==
    [completion |-> "returned", why |-> why, warned |-> failed]

NoCall == [svc |-> 0, completion |-> "none", why |-> "none"]

RECURSIVE SumTo(_, _)
SumTo(f, n) == IF n = 0 THEN 0 ELSE f[n] + SumTo(f, n - 1)

CallsStarted == SumTo(started, MaxServices)

\* boxedStep's try/finally: a throw of the finally block replaces the
\* outcome of the wrapped action, otherwise the result or the error of the
\* action is what the caller gets
WrapperOutcomeSwallows(action, completion) ==
    [action |-> action, outcome |-> "returned"]

WrapperOutcome(action, completion) ==
    [action |-> action,
     outcome |-> IF completion = "threw" THEN "threw-instrumentation"
                 ELSE IF action = "threw" THEN "threw-action"
                 ELSE "returned"]

\* captureScreenshot returns (or throws) to its caller; a call made by
\* boxedStep lets the wrapper complete
Finish(c, r) ==
    /\ last' = [svc |-> c.svc, completion |-> r.completion, why |-> r.why]
    /\ warnings' = IF r.warned THEN warnings + 1 ELSE warnings
    /\ lastStep' = IF c.action = "direct" THEN lastStep
                   ELSE WrapperOutcome(c.action, r.completion)

ShouldCaptureIn(svcs, e, stepFailed) ==
    shouldCaptureScreenshot(svcs[e].config, svcs[e].retryIndex,
                            testInfo[svcs[e].testInfo], project.trace,
                            stepFailed)

\* captureScreenshot up to its first await, on the services svcs
BeginCapture(svcs, e, stepFailed, action) ==
    /\ started' = [started EXCEPT ![e] = @ + 1]
    /\ LET c == [id |-> CallsStarted + 1, svc |-> e, stepFailed |-> stepFailed,
                 action |-> action, pc |-> "fetch", data |-> Undefined]
       IN IF ~ShouldCaptureIn(svcs, e, stepFailed)
          THEN /\ services' = svcs
               /\ Finish(c, Settle("policy", FALSE))
               /\ UNCHANGED <<calls, fetched>>
          ELSE IF hasReachedLimit(svcs, e)
          THEN /\ services' = getState(svcs, e)
               /\ Finish(c, Settle("limit", FALSE))
               /\ UNCHANGED <<calls, fetched>>
          ELSE /\ services' = getState(svcs, e)
               /\ fetched' = [fetched EXCEPT ![e] = @ + 1]
               /\ calls' = calls \cup {c}
               /\ UNCHANGED <<last, warnings, lastStep>>

\* a direct captureScreenshot call, made while no other call is in flight
CaptureStart(e, stepFailed) ==
    /\ e \in 1..Len(services)
    /\ calls = {}
    /\ CallsStarted < MaxCalls
    /\ BeginCapture(services, e, stepFailed, "direct")
    /\ UNCHANGED <<project, testInfo, serviceInstance>>
    /\ UNCHANGED workerVars

\* takeScreenshot() rejects: the catch block logs and returns
FetchFails(c) ==
    /\ c \in calls /\ c.pc = "fetch"
    /\ calls' = calls \ {c}
    /\ Finish(c, Settle("fetch-failed", TRUE))
    /\ UNCHANGED <<project, testInfo, services, serviceInstance, started, fetched>>
    /\ UNCHANGED workerVars

\* takeScreenshot() resolves with data: dedupe, count, call attach
FetchReturns(c, data) ==
    /\ c \in calls /\ c.pc = "fetch"
    /\ LET dup == isDuplicate(services, c.svc, data)
       IN IF dup[1]
          THEN /\ services' = SkipDuplicate(dup[2], c.svc)
               /\ calls' = calls \ {c}
               /\ Finish(c, Settle("duplicate", FALSE))
          ELSE /\ services' = CountScreenshot(dup[2], c.svc)
               /\ calls' = (calls \ {c}) \cup {[c EXCEPT !.pc = "attach", !.data = data]}
               /\ UNCHANGED <<last, warnings, lastStep>>
    /\ UNCHANGED <<project, testInfo, serviceInstance, started, fetched>>
    /\ UNCHANGED workerVars

\* testInfo.attach() resolves: the sink holds the attachment
AttachReturns(c) ==
    /\ c \in calls /\ c.pc = "attach"
    /\ testInfo' = [testInfo EXCEPT ![services[c.svc].testInfo].attachments =
                        Append(@, [body |-> c.data, by |-> c.svc])]
    /\ calls' = calls \ {c}
    /\ Finish(c, Settle("attached", FALSE))
    /\ UNCHANGED <<project, services, serviceInstance, started, fetched>>
    /\ UNCHANGED workerVars

\* testInfo.attach() rejects: the catch block logs and returns
AttachFails(c) ==
    /\ c \in calls /\ c.pc = "attach"
    /\ calls' = calls \ {c}
    /\ Finish(c, Settle("attach-failed", TRUE))
    /\ UNCHANGED <<project, testInfo, services, serviceInstance, started, fetched>>
    /\ UNCHANGED workerVars

\* resetState that zeroes the count and keeps the seen hashes
DeleteStateKeepsHashes(svcs, e) ==
    [svcs EXCEPT ![e].states =
        [k \in DOMAIN @ |-> IF k = KeyOf(svcs[e])
                            THEN [@[k] EXCEPT !.screenshotCount = 0]
                            ELSE @[k]]]

\* states.delete(key) for the key of service e
DeleteState(svcs, e) ==
    [svcs EXCEPT ![e].states = [k \in DOMAIN @ \ {KeyOf(svcs[e])} |-> @[k]]]

resetState(e) ==
    /\ e \in 1..Len(services)
    /\ services' = DeleteState(services, e)
    /\ UNCHANGED <<project, testInfo, serviceInstance, calls, started, fetched,
                   warnings, last, lastStep>>
    /\ UNCHANGED workerVars

\* getScreenshotCount(): reads through getState(), which creates the record
getScreenshotCount(e) ==
    /\ e \in 1..Len(services)
    /\ services' = getState(services, e)
    /\ UNCHANGED <<project, testInfo, serviceInstance, calls, started, fetched,
                   warnings, last, lastStep>>
    /\ UNCHANGED workerVars

\* the host marks the running attempt as failed and records the error
HostFails(ti) ==
    /\ ti \in DOMAIN testInfo
    /\ testInfo[ti].status \in {Undefined, "passed"}
    /\ testInfo' = [testInfo EXCEPT ![ti].status = "failed",
                                    ![ti].errors = <<"boom">>]
    /\ UNCHANGED <<project, services, serviceInstance, calls, started, fetched,
                   warnings, last, lastStep>>
    /\ UNCHANGED workerVars

(***************************************************************************)
(* Specification of the engine on its own: two services, driven directly   *)
(* (as the unit tests drive them), one captureScreenshot call at a time.   *)
(***************************************************************************)
NewTestInfo(testId, retry, title) ==
    [testId |-> testId, retry |-> retry, title |-> title, status |-> Undefined,
     errors |-> <<>>, error |-> Undefined, attachments |-> <<>>]

\* a Device as its constructor leaves it, with persistent sync switched on
\* or not and a provider that implements syncTestDetails or not
NewDevice(syncEnabled, canSync) ==
    [visualTraceService |-> 0, persistentSyncEnabled |-> syncEnabled,
     canSync |-> canSync, activePersistentKey |-> Undefined]

\* createPersistentContext: idlePromise and resolveIdle are undefined (0),
\* a pending promise is named by a positive number
NewContext == [activeOperations |-> 0, idlePromise |-> 0, resolveIdle |-> 0]

\* Device objects as their constructor leaves them: no engine handle
NoDevices == [d \in 1..MaxDevices |-> 0]

NoLifecycle == [started |-> 0, waiters |-> {}, promises |-> 0]

NoStep == [action |-> "none", outcome |-> "none"]

\* no worker is running: the services are driven directly
NoWorker ==
    /\ device = NewDevice(FALSE, FALSE)
    /\ context = NewContext
    /\ host = [phase |-> "none", current |-> 0, prepareCalls |-> 0, stepCalls |-> 0,
                              finalizeCalls |-> 0]
    /\ ops = {}
    /\ synced = <<>>
    /\ steps = {}
    /\ lastStep = NoStep
    /\ lifecycle = NoLifecycle
    /\ logged = {}
    /\ devices = NoDevices

\* the optional VisualTraceConfig objects the engine is constructed with
PartialConfigs(enables, quotas, dedupes) ==
    { [f \in D |-> full[f]] :
        full \in [enableScreenshots : enables, maxScreenshots : quotas,
                  dedupe : dedupes],
        D \in SUBSET {"enableScreenshots", "maxScreenshots", "dedupe"} }

InitEngine(traces, configs, bindings) ==
    /\ project \in [trace : traces, visualTrace : configs]
    /\ testInfo = <<NewTestInfo("t1", 0, "first"), NewTestInfo("t2", 0, "second")>>
    /\ \E b \in bindings :
          services = <<NewService(1, 0, project.visualTrace),
                       NewService(b[1], b[2], project.visualTrace)>>
    /\ serviceInstance = 0
    /\ calls = {}
    /\ started = [e \in 1..MaxServices |-> 0]
    /\ fetched = [e \in 1..MaxServices |-> 0]
    /\ warnings = 0
    /\ last = NoCall
    /\ NoWorker

Init ==
    InitEngine({t \in TraceConfigs : t.kind = "undefined"},
               {c \in PartialConfigs({"on"}, 0..MaxQuota, {FALSE}) :
                    "maxScreenshots" \in DOMAIN c},
               {<<1, 0>>, <<1, 1>>, <<2, 0>>})

Capture ==
    \/ \E e \in 1..MaxServices, sf \in BOOLEAN : CaptureStart(e, sf)
    \/ \E c \in calls : FetchFails(c)
    \/ \E c \in calls, data \in Buffers : FetchReturns(c, data)
    \/ \E c \in calls : AttachReturns(c)
    \/ \E c \in calls : AttachFails(c)

Next ==
    \/ Capture
    \/ \E e \in 1..MaxServices : getScreenshotCount(e)

Spec == Init /\ [][Next]_vars

NextRegistry ==
    \/ \E e \in 1..MaxServices, sf \in BOOLEAN :
          CallsStarted < MaxRegistryCalls /\ CaptureStart(e, sf)
    \/ \E c \in calls : FetchFails(c)
    \/ \E c \in calls, data \in Buffers : FetchReturns(c, data)
    \/ \E c \in calls : AttachReturns(c)
    \/ \E c \in calls : AttachFails(c)
    \/ \E e \in 1..MaxServices : getScreenshotCount(e)
    \/ \E e \in 1..MaxServices : resetState(e)

SpecRegistry == Init /\ [][NextRegistry]_vars

(***************************************************************************)
(* Properties of the engine                                                *)
(***************************************************************************)
Services == 1..Len(services)

Idle(e) == \A c \in calls : c.svc # e

Sinks == [ti \in DOMAIN testInfo |-> testInfo[ti].attachments]

\* shouldCapture is true whatever stepFailed and the attempt's status are
AlwaysCaptures(e) ==
    /\ services[e].config.enableScreenshots \in {"true", "on"}
    /\ project.trace.kind = "undefined" \/ project.trace.mode = "on"
    /\ project.trace.screenshots # "false"

Bodies(e) == {AttachedBy(e)[i].body : i \in 1..Len(AttachedBy(e))}

TimesAttached(e, b) ==
    Cardinality({i \in 1..Len(AttachedBy(e)) : AttachedBy(e)[i].body = b})

\* C1: captureScreenshot never throws: every call completes by returning, and
\* a step in which the fetch or the attach fails writes one warning and
\* leaves every attachment sink as it was.
C1_CaptureNeverThrows ==
    /\ [](last.completion \in {"none", "returned"})
    /\ [][\A c \in calls :
            (FetchFails(c) \/ AttachFails(c)) =>
                /\ last'.completion = "returned"
                /\ last'.svc = c.svc
                /\ warnings' = warnings + 1
                /\ Sinks' = Sinks]_vars

C1_Witness ==
    /\ last.why = "attach-failed"
    /\ last.completion = "returned"
    /\ warnings = 2
    /\ \A e \in Services : AttachedBy(e) = <<>>

NoDuplicateFetched(e) ==
    \/ ~services[e].config.dedupe
    \/ Cardinality(SeenHashes(e)) = fetched[e]

C4_DedupOn ==
    \A e \in Services :
        services[e].config.dedupe =>
            /\ \A b \in Buffers : TimesAttached(e, b) <= 1
            /\ ( /\ Idle(e) /\ warnings = 0 /\ fetched[e] >= 1
                 /\ Cardinality(SeenHashes(e)) = 1 )
               => Len(AttachedBy(e)) = 1

C4_Witness ==
    \E e \in Services :
        /\ services[e].config.dedupe
        /\ Idle(e) /\ warnings = 0
        /\ fetched[e] = 2
        /\ last = [svc |-> e, completion |-> "returned", why |-> "duplicate"]
        /\ Len(AttachedBy(e)) = 1

\* C5: with dedupe off no hash is ever recorded, an allowed call below the
\* quota fetches, and every fetched screenshot is counted and attached (one
\* attachment per fetch once the service is idle, fetches and attaches
\* succeeding), identical content included.
C5_DedupOff ==
    /\ [](\A e \in Services :
            ~services[e].config.dedupe =>
                /\ SeenHashes(e) = {}
                /\ (Idle(e) /\ warnings = 0) =>
                      /\ Len(AttachedBy(e)) = fetched[e]
                      /\ ScreenshotCount(e) = fetched[e])
    /\ [][\A e \in Services, sf \in BOOLEAN :
            ( /\ ~services[e].config.dedupe
              /\ ShouldCapture(e, sf)
              /\ ~hasReachedLimit(services, e)
              /\ CaptureStart(e, sf) )
            => fetched'[e] = fetched[e] + 1]_vars

C5_Witness ==
    \E e \in Services, b \in Buffers :
        /\ ~services[e].config.dedupe
        /\ Idle(e) /\ warnings = 0
        /\ fetched[e] = 2
        /\ TimesAttached(e, b) = 2

\* what an engine bound to the attempt of service e observes
Observed(e) == <<ScreenshotCount(e), SeenHashes(e)>>

ActsOn(e) ==
    \/ resetState(e)
    \/ getScreenshotCount(e)
    \/ \E sf \in BOOLEAN : CaptureStart(e, sf)
    \/ \E c \in calls :
          /\ c.svc = e
          /\ \/ FetchFails(c)
             \/ \E data \in Buffers : FetchReturns(c, data)
             \/ AttachReturns(c)
             \/ AttachFails(c)

\* C6: an operation performed by a service bound to attempt k1 leaves the
\* count and the seen hashes of every service bound to an attempt k2 # k1
\* unchanged.
C6_AttemptIsolation ==
    [][\A e1 \in Services :
          ActsOn(e1) =>
              \A e2 \in Services :
                  KeyOf(services[e1]) # KeyOf(services[e2])
                  => Observed(e2)' = Observed(e2)]_vars

C6_Witness ==
    /\ KeyOf(services[1]) = "t1#0" /\ KeyOf(services[2]) = "t1#1"
    /\ ScreenshotCount(1) = 0
    /\ Len(AttachedBy(1)) = 1
    /\ ScreenshotCount(2) = 1
    /\ SeenHashes(1) = {} /\ SeenHashes(2) # {}

(***************************************************************************)
(* Specification of the capture policy: one service, every combination of  *)
(* host trace configuration, enableScreenshots, status, errors and retry.  *)
(***************************************************************************)
InitPolicy ==
    /\ project \in [trace : TraceConfigs,
                    visualTrace : {c \in PartialConfigs(EnableValues, {1}, {TRUE}) :
                                      DOMAIN c \subseteq {"enableScreenshots"}}]
    /\ \E r \in 0..MaxRetry, s \in Statuses, errs \in {<<>>, <<"boom">>} :
          /\ testInfo = <<[NewTestInfo("t1", r, "first") EXCEPT
                              !.status = s, !.errors = errs]>>
          /\ services = <<NewService(1, r, project.visualTrace)>>
    /\ serviceInstance = 0
    /\ calls = {}
    /\ started = [e \in 1..MaxServices |-> 0]
    /\ fetched = [e \in 1..MaxServices |-> 0]
    /\ warnings = 0
    /\ last = NoCall
    /\ NoWorker

NextPolicy ==
    \/ \E sf \in BOOLEAN : CallsStarted < MaxPolicyCalls /\ CaptureStart(1, sf)
    \/ \E c \in calls : FetchFails(c)
    \/ \E c \in calls, data \in Buffers : FetchReturns(c, data)
    \/ \E c \in calls : AttachReturns(c)
    \/ \E c \in calls : AttachFails(c)
    \/ HostFails(1)

SpecPolicy == InitPolicy /\ [][NextPolicy]_vars

HardDisabled(e) == services[e].config.enableScreenshots \in {"false", "off"}

\* C8: a service whose enableScreenshots is false or "off" answers false to
\* shouldCapture for both values of stepFailed under every trace
\* configuration, status, error list and retry index, and its
\* captureScreenshot calls fetch nothing and attach nothing.
C8_HardDisable ==
    \A e \in Services :
        HardDisabled(e) =>
            /\ \A sf \in BOOLEAN : ~ShouldCapture(e, sf)
            /\ fetched[e] = 0
            /\ Idle(e)
            /\ AttachedBy(e) = <<>>

C8_Witness ==
    /\ HardDisabled(1)
    /\ project.trace.kind = "string" /\ project.trace.mode = "on"
    /\ services[1].retryIndex = 1
    /\ testInfo[1].status = "failed"
    /\ started[1] = 1
    /\ last = [svc |-> 1, completion |-> "returned", why |-> "policy"]

\* the table of the trace-mode mapping
TraceModeTable(mode, info, retryIndex, stepFailed) ==
    CASE mode = "on"                -> TRUE
      [] mode = "off"               -> FALSE
      [] mode = "retain-on-failure" ->
            \/ stepFailed
            \/ (info.status # Undefined /\ info.status # "passed")
            \/ info.errors # <<>>
            \/ retryIndex > 0
      [] mode = "on-first-retry"    -> retryIndex = 1
      [] mode \in {"on-all-retries", "retry-with-trace"} -> retryIndex > 0

RecognisedTraceMode ==
    /\ project.trace.kind \in {"string", "object"}
    /\ project.trace.mode \in KnownTraceModes

\* C9 as stated: whenever enableScreenshots is not false/"off" and the host's
\* trace configuration carries a recognised mode, shouldCapture equals the
\* table.
C9_TraceModeMappingAnyForm ==
    \A e \in Services, sf \in BOOLEAN :
        (~HardDisabled(e) /\ RecognisedTraceMode)
        => ShouldCapture(e, sf) =
              TraceModeTable(project.trace.mode, testInfo[services[e].testInfo],
                             services[e].retryIndex, sf)

\* C9 amended: the same, unless the host's trace configuration is an object
\* with screenshots: false.
C9_TraceModeMapping ==
    \A e \in Services, sf \in BOOLEAN :
        (~HardDisabled(e) /\ RecognisedTraceMode /\ project.trace.screenshots # "false")
        => ShouldCapture(e, sf) =
              TraceModeTable(project.trace.mode, testInfo[services[e].testInfo],
                             services[e].retryIndex, sf)

C9_Witness ==
    /\ ~HardDisabled(1)
    /\ project.trace.kind = "object" /\ project.trace.mode = "on-first-retry"
    /\ project.trace.screenshots = "true"
    /\ services[1].retryIndex = 2
    /\ testInfo[1].status = "failed"
    /\ started[1] = 1
    /\ last = [svc |-> 1, completion |-> "returned", why |-> "policy"]

(***************************************************************************)
(* Persistent device: lifecycle coordinator                                *)
(***************************************************************************)
persistentKey(info) == info.testId \o "#" \o ToString(info.retry)

shouldSyncPersistent(dev) == dev.persistentSyncEnabled /\ dev.canSync

\* preparePersistentTest without the guard on the cursor
prepareSendsAlways(dev, info) == shouldSyncPersistent(dev)

\* preparePersistentTest gets past its two early returns
prepareSends(dev, info) ==
    /\ shouldSyncPersistent(dev)
    /\ dev.activePersistentKey # persistentKey(info)

\* finalizePersistentTest that skips the sync unless the cursor holds the key
finalizeSendsGuarded(dev, info) ==
    /\ shouldSyncPersistent(dev)
    /\ dev.activePersistentKey = persistentKey(info)

\* finalizePersistentTest that reports failing attempts only
finalizeSendsOnFailure(dev, info) ==
    /\ shouldSyncPersistent(dev)
    /\ info.status \notin {Undefined, "passed"}

\* finalizePersistentTest gets past its early return: the two warnings about
\* the cursor do not stop it
finalizeSends(dev, info) == shouldSyncPersistent(dev)

mapPlaywrightStatus(status) ==
    IF status \in {"failed", "timedOut", "interrupted"} THEN "failed" ELSE "passed"

\* a message is used when it is truthy: neither undefined nor ""
Truthy(message) == message \notin {Undefined, ""}

\* failureReason that looks at the top-level error only
failureReasonTopLevel(info) == info.error

failureReason(info) ==
    IF Len(info.errors) > 0 /\ Truthy(info.errors[1])
    THEN info.errors[1]
    ELSE info.error

NameOnly(info) == [name |-> info.title, status |-> Undefined, reason |-> Undefined]

FinalDetails(info) ==
    [name   |-> info.title,
     status |-> mapPlaywrightStatus(info.status),
     reason |-> IF mapPlaywrightStatus(info.status) = "failed"
                THEN failureReason(info) ELSE Undefined]

\* runWithLifecycle: entry, and the finally block
Enter(ctx) == [ctx EXCEPT !.activeOperations = @ + 1]

\* a finally block that resolves the idle promise at every completion
LeaveResolvesEarly(ctx) ==
    [activeOperations |-> ctx.activeOperations - 1, idlePromise |-> 0,
     resolveIdle |-> 0]

\* a finally block that decrements and never calls resolveIdle
LeaveForgetsWaiters(ctx) == [ctx EXCEPT !.activeOperations = @ - 1]

Leave(ctx) ==
    IF ctx.activeOperations - 1 = 0 /\ ctx.resolveIdle # 0
    THEN [activeOperations |-> 0, idlePromise |-> 0, resolveIdle |-> 0]
    ELSE [ctx EXCEPT !.activeOperations = @ - 1]

\* a wait that installs a promise of its own whatever is pending
installIdleAlways(ctx, fresh) ==
    [ctx EXCEPT !.idlePromise = fresh, !.resolveIdle = fresh]

\* waitForLifecycleToComplete installs the idle promise if none is pending
installIdle(ctx, fresh) ==
    IF ctx.idlePromise = 0
    THEN [ctx EXCEPT !.idlePromise = fresh, !.resolveIdle = fresh]
    ELSE ctx

\* runWithLifecycle with the decrement after the task instead of in finally
runWithLifecycleNoFinally(ctx, ok) == IF ok THEN Leave(ctx) ELSE ctx

\* runWithLifecycle once its task has settled, fulfilled (ok) or rejected
runWithLifecycleSettled(ctx, ok) == Leave(ctx)

\* the tests declared before t, which the runner starts first
TestOrder(t) == IF t = "t2" THEN {"t1"} ELSE {}

TitleOf(testId) == "title of " \o testId

\* the runner starts an attempt and runs the beforeEach hook:
\* runWithLifecycle(preparePersistentTest) up to the provider sync
StartAttempt(t) ==
    /\ host.phase = "idle"
    /\ steps = {} /\ calls = {}
    /\ Len(testInfo) < MaxAttempts
    /\ LET earlier == {i \in DOMAIN testInfo : testInfo[i].testId = t}
           r == Cardinality(earlier)
           info == [NewTestInfo(t, r, TitleOf(t)) EXCEPT !.status = "passed"]
           ti == Len(testInfo) + 1
       IN /\ r <= MaxRetry
          /\ r = 0 => \A u \in TestOrder(t) : \E i \in DOMAIN testInfo : testInfo[i].testId = u
          /\ \A i \in earlier : mapPlaywrightStatus(testInfo[i].status) = "failed"
          /\ testInfo' = Append(testInfo, info)
          /\ IF prepareSends(device, info)
             THEN /\ device' = [device EXCEPT !.activePersistentKey = persistentKey(info)]
                  /\ synced' = Append(synced, NameOnly(info))
                  /\ ops' = ops \cup {[kind |-> "prepare", ti |-> ti, lifecycle |-> TRUE]}
                  /\ context' = Enter(context)
                  /\ host' = [phase |-> "beforeEach", current |-> ti,
                              prepareCalls |-> 1, stepCalls |-> 0,
                              finalizeCalls |-> 0]
             ELSE /\ context' = Leave(Enter(context))
                  /\ host' = [phase |-> "body", current |-> ti,
                              prepareCalls |-> 1, stepCalls |-> 0,
                              finalizeCalls |-> 0]
                  /\ UNCHANGED <<device, synced, ops>>
    /\ UNCHANGED <<devices, logged, lifecycle, project, services, serviceInstance, calls, started, fetched,
                   warnings, last, steps, lastStep>>

\* device.ensurePersistentLifecycle(testInfo) called from the test body
EnsureLifecycle ==
    /\ host.phase = "body"
    /\ ops = {}
    /\ host.prepareCalls < MaxPrepare
    /\ host' = [host EXCEPT !.prepareCalls = @ + 1]
    /\ LET info == testInfo[host.current]
       IN IF prepareSends(device, info)
          THEN /\ device' = [device EXCEPT !.activePersistentKey = persistentKey(info)]
               /\ synced' = Append(synced, NameOnly(info))
               /\ ops' = ops \cup {[kind |-> "prepare", ti |-> host.current,
                                    lifecycle |-> FALSE]}
          ELSE UNCHANGED <<device, synced, ops>>
    /\ UNCHANGED <<devices, logged, lifecycle, project, testInfo, services, serviceInstance, calls, started,
                   fetched, warnings, last, context, steps, lastStep>>

\* the afterEach hook: runWithLifecycle(finalizePersistentTest) up to the
\* provider sync
afterEach(info) ==
    /\ IF finalizeSends(device, info)
       THEN /\ synced' = Append(synced, FinalDetails(info))
            /\ ops' = ops \cup {[kind |-> "finalize", ti |-> host.current,
                                 lifecycle |-> TRUE]}
            /\ context' = Enter(context)
            /\ host' = [host EXCEPT !.phase = "afterEach", !.finalizeCalls = @ + 1]
       ELSE /\ context' = Leave(Enter(context))
            /\ host' = [host EXCEPT !.phase = "idle", !.current = 0,
                                    !.finalizeCalls = @ + 1]
            /\ UNCHANGED <<synced, ops>>
    /\ UNCHANGED <<devices, logged, lifecycle, project, services, serviceInstance, calls, started,
                   fetched, warnings, last, device, steps, lastStep>>

\* the test body returns, every action it called having settled
EndBody ==
    /\ host.phase = "body"
    /\ steps = {} /\ calls = {} /\ ops = {}
    /\ afterEach(testInfo[host.current])
    /\ UNCHANGED testInfo

\* the attempt's timeout expires while an instrumented action is pending:
\* the runner gives the body up, marks the attempt and runs afterEach
BodyTimesOut ==
    /\ host.phase = "body"
    /\ steps # {} \/ calls # {}
    /\ ops = {}
    /\ testInfo' = [testInfo EXCEPT ![host.current].status = "timedOut",
                                    ![host.current].errors = <<"Test timeout exceeded">>]
    /\ afterEach(testInfo'[host.current])

\* a safeSync without its try/catch
safeSyncRethrows(ok) == IF ok THEN "resolved" ELSE "rejected"

\* safeSync: a rejection of syncTestDetails is logged and not propagated
safeSync(ok) == "resolved"

\* syncTestDetails settles, fulfilled (ok) or rejected; a finalize whose
\* safeSync resolved then clears the cursor, and the hook's try/catch and
\* runWithLifecycle's finally block run
SyncSettles(op, ok) ==
    /\ op \in ops
    /\ ops' = ops \ {op}
    /\ logged' = IF ok THEN logged ELSE logged \cup {op.kind}
    /\ device' = IF op.kind = "finalize" /\ safeSync(ok) = "resolved"
                 THEN [device EXCEPT !.activePersistentKey = Undefined]
                 ELSE device
    /\ IF op.lifecycle
       THEN /\ context' = Leave(context)
            /\ host' = IF op.kind = "prepare"
                       THEN [host EXCEPT !.phase = "body"]
                       ELSE [host EXCEPT !.phase = "idle", !.current = 0]
       ELSE UNCHANGED <<context, host>>
    /\ UNCHANGED <<devices, lifecycle, project, testInfo, services, serviceInstance, calls, started,
                   fetched, warnings, last, synced, steps, lastStep>>

(***************************************************************************)
(* Action instrumentation wrapper (boxedStep)                              *)
(***************************************************************************)
\* a wrapped Device or Locator method is called from the test body
StepCall(recv) ==
    /\ host.phase = "body"
    /\ steps = {} /\ calls = {}
    /\ host.stepCalls < MaxSteps
    /\ CallsStarted < MaxCalls
    /\ steps' = steps \cup {[id |-> host.stepCalls + 1, recv |-> recv]}
    /\ host' = [host EXCEPT !.stepCalls = @ + 1]
    /\ UNCHANGED <<devices, logged, lifecycle, project, testInfo, services, serviceInstance, calls, started,
                   fetched, warnings, last, device, context, ops, synced, lastStep>>

\* the receiver, or the device it belongs to, is a Device: it exposes
\* initializeVisualTrace and takeScreenshot
HasDevice(recv) == recv \in {"device", "locator"}

\* a wrapper that initializes an engine at every action
lazyInitAlways(instance, infoAvailable, current, recv) ==
    infoAvailable /\ current # 0 /\ HasDevice(recv)

\* the finally block initializes an engine: none is active, test.info()
\* returns the running attempt and the device has initializeVisualTrace
lazyInit(instance, infoAvailable, current, recv) ==
    instance = 0 /\ infoAvailable /\ current # 0 /\ HasDevice(recv)

\* a wrapper that never reports the failure of its action
stepFailedNever(outcome) == FALSE

\* the stepFailed flag the wrapper passes to captureScreenshot
stepFailedOf(outcome) == outcome = "threw"

\* the wrapped action settles and the finally block runs up to its await:
\* lazy initialization of the engine, then captureScreenshot
TargetSettles(s, outcome, infoAvailable) ==
    /\ s \in steps
    /\ steps' = steps \ {s}
    /\ LET inited == lazyInit(serviceInstance, infoAvailable, host.current, s.recv)
           svcs1 == IF inited
                    THEN Append(services,
                                NewService(host.current, testInfo[host.current].retry,
                                           project.visualTrace))
                    ELSE services
           inst1 == IF inited THEN Len(services) + 1 ELSE serviceInstance
       IN /\ Len(svcs1) <= MaxServices
          /\ serviceInstance' = inst1
          /\ device' = IF inited THEN [device EXCEPT !.visualTraceService = inst1]
                       ELSE device
          /\ IF inst1 # 0 /\ HasDevice(s.recv)
             THEN BeginCapture(svcs1, inst1, stepFailedOf(outcome), outcome)
             ELSE /\ services' = svcs1
                  /\ lastStep' = WrapperOutcome(outcome, "none")
                  /\ UNCHANGED <<calls, started, fetched, last, warnings>>
    /\ UNCHANGED <<devices, logged, lifecycle, project, testInfo, context, host, ops, synced>>

\* teardown of the worker fixture: waitForLifecycleToComplete, device.close()
Teardown ==
    /\ host.phase = "idle"
    /\ context.activeOperations = 0
    /\ host' = [host EXCEPT !.phase = "closed"]
    /\ IF device.visualTraceService # 0 /\ serviceInstance # 0
       THEN /\ services' = [services EXCEPT ![serviceInstance].states =
                               [k \in DOMAIN @ \ {KeyOf(services[serviceInstance])} |-> @[k]]]
            /\ serviceInstance' = 0
       ELSE UNCHANGED <<services, serviceInstance>>
    /\ device' = [device EXCEPT !.visualTraceService = 0]
    /\ UNCHANGED <<devices, logged, lifecycle, project, testInfo, calls, started, fetched, warnings, last,
                   context, ops, synced, steps, lastStep>>

WorkerTraces ==
    {t \in TraceConfigs : t.kind = "undefined" \/ (t.kind = "string" /\ t.mode = "on")}

InitWorker ==
    /\ project \in [trace : WorkerTraces,
                    visualTrace : {c \in PartialConfigs({"on"}, {1}, {TRUE}) :
                                      DOMAIN c \in {{}, {"enableScreenshots", "maxScreenshots"}}}]
    /\ testInfo = <<>>
    /\ services = <<>>
    /\ serviceInstance = 0
    /\ calls = {}
    /\ started = [e \in 1..MaxServices |-> 0]
    /\ fetched = [e \in 1..MaxServices |-> 0]
    /\ warnings = 0
    /\ last = NoCall
    /\ device \in {NewDevice(TRUE, canSync) : canSync \in BOOLEAN}
    /\ context = NewContext
    /\ host = [phase |-> "idle", current |-> 0, prepareCalls |-> 0, stepCalls |-> 0,
                              finalizeCalls |-> 0]
    /\ ops = {}
    /\ synced = <<>>
    /\ steps = {}
    /\ lastStep = NoStep
    /\ lifecycle = NoLifecycle
    /\ logged = {}
    /\ devices = NoDevices

NextWorker ==
    \/ \E t \in TestIds : StartAttempt(t)
    \/ EnsureLifecycle
    \/ \E op \in ops, ok \in BOOLEAN : SyncSettles(op, ok)
    \/ \E recv \in {"device", "locator", "other"} : StepCall(recv)
    \/ \E s \in steps, outcome \in {"ok", "threw"}, infoAvailable \in BOOLEAN :
          TargetSettles(s, outcome, infoAvailable)
    \/ \E c \in calls : FetchFails(c)
    \/ \E c \in calls, data \in Buffers : FetchReturns(c, data)
    \/ \E c \in calls : AttachReturns(c)
    \/ \E c \in calls : AttachFails(c)
    \/ host.phase = "body" /\ HostFails(host.current)
    \/ EndBody
    \/ Teardown

SpecWorker == InitWorker /\ [][NextWorker]_vars

\* the same worker under a runner whose attempts can time out
NextTeardown ==
    \/ NextWorker
    \/ BodyTimesOut

SpecTeardown == InitWorker /\ [][NextTeardown]_vars

(***************************************************************************)
(* Properties of the wrapper and of the lifecycle coordinator              *)
(***************************************************************************)
\* C2: boxedStep is outcome-transparent: a completed wrapper returned iff its
\* action succeeded and threw the action's own error iff the action threw,
\* whatever engine initialization, fetch and attach did.
C2_OutcomeTransparent ==
    /\ lastStep.action = "ok" => lastStep.outcome = "returned"
    /\ lastStep.action = "threw" => lastStep.outcome = "threw-action"
    /\ lastStep.outcome = "returned" => lastStep.action = "ok"
    /\ lastStep.outcome \in {"none", "returned", "threw-action"}

C2_Witness ==
    /\ lastStep = [action |-> "ok", outcome |-> "returned"]
    /\ last.why = "attach-failed"
    /\ warnings = 1
    /\ host.phase = "body" /\ host.stepCalls = 1
    /\ steps = {} /\ calls = {}

\* C7: on the shared persistent device every captureScreenshot call made by
\* an instrumented action runs on an engine bound to the attempt the host is
\* running: that attempt's TestInfo (its sink) and its testId#retry key.
C7_PerAttemptAttribution ==
    \A c \in calls :
        c.action # "direct" =>
            /\ services[c.svc].testInfo = host.current
            /\ KeyOf(services[c.svc]) = persistentKey(testInfo[host.current])

Cursor == device.activePersistentKey

\* C10: on a sync-enabled device, a prepare call made while the cursor equals
\* the attempt's key sends nothing and leaves the cursor; so from the
\* beforeEach prepare of an attempt up to its finalize the provider has
\* received exactly one notification for it, the last one, with the name only.
C10_PrepareIdempotent ==
    /\ [](( /\ shouldSyncPersistent(device)
            /\ host.phase \in {"beforeEach", "body"} )
          => /\ Cursor = persistentKey(testInfo[host.current])
             /\ Len(synced) = 2 * (host.current - 1) + 1
             /\ synced[Len(synced)] =
                   [name |-> testInfo[host.current].title,
                    status |-> Undefined, reason |-> Undefined])
    /\ [][( /\ shouldSyncPersistent(device)
            /\ host.phase = "body"
            /\ Cursor = persistentKey(testInfo[host.current])
            /\ host'.prepareCalls = host.prepareCalls + 1 )
          => /\ synced' = synced
             /\ Cursor' = Cursor
             /\ ops' = ops]_vars

C10_Witness ==
    /\ shouldSyncPersistent(device)
    /\ host.phase = "body" /\ host.current = 2
    /\ host.prepareCalls = 3
    /\ Cursor = persistentKey(testInfo[2])
    /\ Len(synced) = 3
    /\ synced[3] = [name |-> testInfo[2].title, status |-> Undefined,
                    reason |-> Undefined]

(***************************************************************************)
(* Specification of the lifecycle coordinator on its own: one Device,      *)
(* its three methods called directly, one call at a time (as the unit      *)
(* tests call them), with any two TestInfo objects.                        *)
(***************************************************************************)
preparePersistentTest(i) ==
    /\ i \in DOMAIN testInfo
    /\ ops = {}
    /\ host.prepareCalls + host.finalizeCalls < MaxCoordinatorCalls
    /\ IF prepareSends(device, testInfo[i])
       THEN /\ device' = [device EXCEPT !.activePersistentKey = persistentKey(testInfo[i])]
            /\ synced' = Append(synced, NameOnly(testInfo[i]))
            /\ ops' = ops \cup {[kind |-> "prepare", ti |-> i, lifecycle |-> FALSE]}
       ELSE UNCHANGED <<device, synced, ops>>
    /\ host' = [host EXCEPT !.prepareCalls = @ + 1]
    /\ UNCHANGED <<devices, logged, lifecycle, project, testInfo, services, serviceInstance, calls, started,
                   fetched, warnings, last, context, steps, lastStep>>

ensurePersistentLifecycle(i) ==
    /\ shouldSyncPersistent(device)
    /\ preparePersistentTest(i)

finalizePersistentTest(i) ==
    /\ i \in DOMAIN testInfo
    /\ ops = {}
    /\ host.prepareCalls + host.finalizeCalls < MaxCoordinatorCalls
    /\ IF finalizeSends(device, testInfo[i])
       THEN /\ synced' = Append(synced, FinalDetails(testInfo[i]))
            /\ ops' = ops \cup {[kind |-> "finalize", ti |-> i, lifecycle |-> FALSE]}
       ELSE UNCHANGED <<synced, ops>>
    /\ host' = [host EXCEPT !.finalizeCalls = @ + 1]
    /\ UNCHANGED <<devices, logged, lifecycle, project, testInfo, services, serviceInstance, calls, started,
                   fetched, warnings, last, device, context, steps, lastStep>>

ErrorLists == {<<>>, <<"boom">>, <<Undefined>>, <<"">>, <<"boom", "later">>}

InitCoordinator ==
    /\ project = [trace |-> [kind |-> "undefined", mode |-> Undefined,
                             screenshots |-> Undefined],
                  visualTrace |-> <<>>]
    /\ testInfo \in
         {<< [NewTestInfo("t1", 0, TitleOf("t1")) EXCEPT
                 !.status = st, !.errors = errs, !.error = err],
             [NewTestInfo("t2", 0, TitleOf("t2")) EXCEPT
                 !.status = st2] >> :
            st \in Statuses, errs \in ErrorLists, err \in {Undefined, "top"},
            st2 \in {"passed", "skipped"}}
    /\ services = <<>>
    /\ serviceInstance = 0
    /\ calls = {}
    /\ started = [e \in 1..MaxServices |-> 0]
    /\ fetched = [e \in 1..MaxServices |-> 0]
    /\ warnings = 0
    /\ last = NoCall
    /\ device \in {NewDevice(syncEnabled, canSync) :
                      syncEnabled \in BOOLEAN, canSync \in BOOLEAN}
    /\ context = NewContext
    /\ host = [phase |-> "none", current |-> 0, prepareCalls |-> 0, stepCalls |-> 0,
                              finalizeCalls |-> 0]
    /\ ops = {}
    /\ synced = <<>>
    /\ steps = {}
    /\ lastStep = NoStep
    /\ lifecycle = NoLifecycle
    /\ logged = {}
    /\ devices = NoDevices

NextCoordinator ==
    \/ \E i \in DOMAIN testInfo : preparePersistentTest(i)
    \/ \E i \in DOMAIN testInfo : ensurePersistentLifecycle(i)
    \/ \E i \in DOMAIN testInfo : finalizePersistentTest(i)
    \/ \E op \in ops, ok \in BOOLEAN : SyncSettles(op, ok)

SpecCoordinator == InitCoordinator /\ [][NextCoordinator]_vars

StatusNotifications == {k \in 1..Len(synced) : synced[k].status # Undefined}

\* C11: on a sync-enabled device every finalizePersistentTest call sends
\* exactly one notification (the attempt's name, status and reason), whatever
\* the cursor held, and its completion leaves the cursor cleared.
C11_FinalizeAlwaysSyncs ==
    /\ [](shouldSyncPersistent(device)
          => Cardinality(StatusNotifications) = host.finalizeCalls)
    /\ [][\A i \in DOMAIN testInfo :
            (shouldSyncPersistent(device) /\ finalizePersistentTest(i))
            => /\ Len(synced') = Len(synced) + 1
               /\ synced'[Len(synced')].name = testInfo[i].title
               /\ synced'[Len(synced')].status \in {"passed", "failed"}
               /\ \E op \in ops' : op.kind = "finalize" /\ op.ti = i]_vars
    /\ [][\A op \in ops :
            (op.kind = "finalize" /\ ops' = ops \ {op})
            => /\ Cursor' = Undefined
               /\ synced' = synced]_vars

C11_Witness ==
    /\ shouldSyncPersistent(device)
    /\ host.prepareCalls = 1 /\ host.finalizeCalls = 2
    /\ Len(synced) = 3
    /\ synced[1] = NameOnly(testInfo[1])
    /\ synced[2].name = testInfo[2].title /\ synced[2].status = "passed"
    /\ synced[3].name = testInfo[2].title /\ synced[3].status = "passed"
    /\ ops = {}
    /\ Cursor = Undefined

\* the status and the reason C12 expects for an attempt
ExpectedStatus(info) ==
    IF info.status = "failed" \/ info.status = "timedOut" \/ info.status = "interrupted"
    THEN "failed" ELSE "passed"

HasMessage(e) == e # Undefined /\ e # ""

ExpectedReason(info) ==
    IF ExpectedStatus(info) # "failed" THEN Undefined
    ELSE IF info.errors # <<>> /\ HasMessage(Head(info.errors)) THEN Head(info.errors)
    ELSE info.error

\* C12: the notification a finalizePersistentTest call sends carries "failed"
\* exactly for the runner statuses failed, timedOut and interrupted and
\* "passed" otherwise; its reason is present only with "failed" and is then
\* the first recorded error's message, else the top-level error's message.
C12_StatusMapping ==
    [][\A i \in DOMAIN testInfo :
         (shouldSyncPersistent(device) /\ finalizePersistentTest(i))
         => /\ Len(synced') = Len(synced) + 1
            /\ synced'[Len(synced')] =
                  [name   |-> testInfo[i].title,
                   status |-> ExpectedStatus(testInfo[i]),
                   reason |-> ExpectedReason(testInfo[i])]]_vars

C12_Witness ==
    /\ testInfo[1].status = "timedOut"
    /\ testInfo[1].errors = <<Undefined>>
    /\ testInfo[1].error = "top"
    /\ host.finalizeCalls = 2
    /\ Len(synced) = 2
    /\ synced[1] = [name |-> testInfo[1].title, status |-> "failed", reason |-> "top"]
    /\ synced[2] = [name |-> testInfo[2].title, status |-> "passed", reason |-> Undefined]
    /\ testInfo[2].status = "skipped"

(***************************************************************************)
(* Reporting of the attempts of a worker                                   *)
(***************************************************************************)
\* afterEach of attempt i has called finalizePersistentTest
Finalized(i) == i < Len(testInfo) \/ host.phase \in {"afterEach", "idle", "closed"}

RECURSIVE Reports(_)
Reports(n) ==
    IF n = 0 THEN <<>>
    ELSE Reports(n - 1)
         \o << [name |-> testInfo[n].title, status |-> Undefined, reason |-> Undefined] >>
         \o (IF Finalized(n)
             THEN << [name   |-> testInfo[n].title,
                      status |-> ExpectedStatus(testInfo[n]),
                      reason |-> ExpectedReason(testInfo[n])] >>
             ELSE <<>>)

\* C13: the provider of a sync-enabled persistent device has received, for
\* the attempts the worker has run so far and in their order, one name-only
\* notification each followed (once afterEach has run) by one notification
\* with the attempt's name, mapped status and reason; nothing else.
C13_ExactlyOnce ==
    shouldSyncPersistent(device) => synced = Reports(Len(testInfo))

C13_Witness ==
    /\ shouldSyncPersistent(device)
    /\ host.phase = "idle"
    /\ Len(testInfo) = 2
    /\ testInfo[2].testId = testInfo[1].testId /\ testInfo[2].retry = 1
    /\ Len(synced) = 4
    /\ synced[2] = [name |-> TitleOf("t1"), status |-> "failed", reason |-> "boom"]
    /\ synced[3] = [name |-> TitleOf("t1"), status |-> Undefined, reason |-> Undefined]
    /\ synced[4] = [name |-> TitleOf("t1"), status |-> "passed", reason |-> Undefined]
    /\ lastStep.outcome = "threw-action"

(***************************************************************************)
(* Specification of a PersistentDeviceContext on its own: overlapping      *)
(* runWithLifecycle operations and waitForLifecycleToComplete calls.       *)
(***************************************************************************)
InFlight == {o \in ops : o.lifecycle}

\* runWithLifecycle(context, task) up to the await of its task
RunBegin ==
    /\ lifecycle.started < MaxOps
    /\ lifecycle' = [lifecycle EXCEPT !.started = @ + 1]
    /\ context' = Enter(context)
    /\ ops' = ops \cup {[kind |-> "task", ti |-> lifecycle.started + 1,
                         lifecycle |-> TRUE]}
    /\ UNCHANGED <<devices, logged, project, testInfo, services, serviceInstance, calls, started,
                   fetched, warnings, last, device, host, synced, steps, lastStep>>

\* the task settles and the rest of runWithLifecycle runs; resolveIdle()
\* resolves the promise every pending waiter awaits
RunEnd(op, ok) ==
    /\ op \in InFlight
    /\ ops' = ops \ {op}
    /\ context' = runWithLifecycleSettled(context, ok)
    /\ lifecycle' =
          IF context.resolveIdle # 0 /\ context'.resolveIdle = 0
          THEN [lifecycle EXCEPT !.waiters =
                   {IF w.promise = context.resolveIdle
                    THEN [w EXCEPT !.state = "resolved"] ELSE w : w \in @}]
          ELSE lifecycle
    /\ UNCHANGED <<devices, logged, project, testInfo, services, serviceInstance, calls, started,
                   fetched, warnings, last, device, host, synced, steps, lastStep>>

\* waitForLifecycleToComplete(context) up to its return or its await
WaitBegin ==
    /\ Cardinality(lifecycle.waiters) < MaxWaits
    /\ LET id == Cardinality(lifecycle.waiters) + 1
           pending == {o.ti : o \in InFlight}
       IN IF context.activeOperations = 0
          THEN /\ lifecycle' = [lifecycle EXCEPT !.waiters = @ \cup
                                  {[id |-> id, pending |-> pending,
                                    k |-> context.activeOperations,
                                    promise |-> 0,
                                    state |-> "resolved"]}]
               /\ UNCHANGED context
          ELSE /\ context' = installIdle(context, lifecycle.promises + 1)
               /\ lifecycle' = [lifecycle EXCEPT
                                  !.promises = IF context'.idlePromise = @ + 1
                                               THEN @ + 1 ELSE @,
                                  !.waiters = @ \cup
                                  {[id |-> id, pending |-> pending,
                                    k |-> context.activeOperations,
                                    promise |-> context'.idlePromise,
                                    state |-> "waiting"]}]
    /\ UNCHANGED <<devices, logged, project, testInfo, services, serviceInstance, calls, started,
                   fetched, warnings, last, device, host, ops, synced, steps,
                   lastStep>>

InitContext ==
    /\ InitWorker
    /\ project.trace.kind = "undefined"
    /\ project.visualTrace = <<>>
    /\ device.canSync

NextContext ==
    \/ RunBegin
    \/ \E op \in ops, ok \in BOOLEAN : RunEnd(op, ok)
    \/ WaitBegin

SpecContext == InitContext /\ [][NextContext]_vars

Resolved == {w \in lifecycle.waiters : w.state = "resolved"}

\* C14: a waitForLifecycleToComplete call never resolves while
\* activeOperations > 0: the operations in flight when it started have all
\* completed when it is resolved, it becomes resolved only in a step that
\* leaves activeOperations at 0, and a call made with activeOperations = 0
\* resolves at once and installs no pending signal.
C14_IdleWait ==
    /\ [](\A w \in Resolved : w.pending \cap {o.ti : o \in InFlight} = {})
    /\ [](\A w \in lifecycle.waiters : w.k = 0 => w.state = "resolved")
    /\ [][ /\ Resolved' # Resolved => context'.activeOperations = 0
           /\ (context.activeOperations = 0
               /\ lifecycle'.waiters # lifecycle.waiters)
              => /\ context' = context
                 /\ context'.idlePromise = 0 /\ context'.resolveIdle = 0
                 /\ lifecycle'.waiters \ lifecycle.waiters \subseteq Resolved' ]_vars

C14_Witness ==
    /\ \E w \in Resolved : w.k = 2 /\ w.pending = {1, 2}
    /\ \E w \in lifecycle.waiters : w.k = 0
    /\ ops = {}
    /\ context = NewContext

\* C15: activeOperations is never negative and equals the number of
\* runWithLifecycle operations that have started and not yet completed.
C15_OperationCount ==
    /\ context.activeOperations >= 0
    /\ context.activeOperations = Cardinality(InFlight)
    /\ context.activeOperations <= lifecycle.started

C15_Witness ==
    /\ lifecycle.started = 3
    /\ context.activeOperations = 1
    /\ InFlight = {[kind |-> "task", ti |-> 2, lifecycle |-> TRUE]}

\* C16: device.close() of the persistent-device teardown runs only in a
\* state where activeOperations is 0 and neither a provider sync nor an
\* instrumented action or its screenshot capture is in flight.
C16_TeardownSafety ==
    [][(host.phase # "closed" /\ host'.phase = "closed")
       => /\ context.activeOperations = 0
          /\ ops = {}
          /\ steps = {}
          /\ calls = {}]_vars

(***************************************************************************)
(* Specification of one attempt's trace lifecycle: one service, its        *)
(* captureScreenshot, getScreenshotCount and resetState called directly.   *)
(***************************************************************************)
InitAttempt ==
    InitEngine({t \in TraceConfigs : t.kind = "undefined"},
               {c \in PartialConfigs({"on"}, 0..MaxQuota, {FALSE}) :
                    "maxScreenshots" \in DOMAIN c},
               {<<2, 0>>})

NextAttempt ==
    \/ \E sf \in BOOLEAN : CaptureStart(1, sf)
    \/ \E c \in calls : FetchFails(c)
    \/ \E c \in calls, data \in Buffers : FetchReturns(c, data)
    \/ \E c \in calls : AttachReturns(c)
    \/ \E c \in calls : AttachFails(c)
    \/ getScreenshotCount(1)
    \/ resetState(1)

SpecAttempt == InitAttempt /\ [][NextAttempt]_vars

\* C17: resetState is idempotent: in every state the engine after two
\* resetState calls equals the engine after one, the count is 0 after
\* either, no hash is seen any more (no screenshot is a duplicate), and a
\* resetState step always leaves count 0 and an empty seen-hash set.
C17_ResetIdempotent ==
    /\ [](\A e \in Services :
            LET once  == DeleteState(services, e)
                twice == DeleteState(once, e)
            IN /\ twice = once
               /\ StateOf(once, e).screenshotCount = 0
               /\ StateOf(twice, e).screenshotCount = 0
               /\ StateOf(once, e).dedupeHashes = {}
               /\ \A data \in Buffers : ~isDuplicate(once, e, data)[1])
    /\ [][\A e \in Services :
            resetState(e) => /\ ScreenshotCount(e)' = 0
                             /\ SeenHashes(e)' = {}
                             /\ (ScreenshotCount(e) = 0 /\ SeenHashes(e) = {}
                                   => Observed(e)' = Observed(e))]_vars

C17_Witness ==
    /\ services[1].config.dedupe
    /\ KeyOf(services[1]) \notin DOMAIN services[1].states
    /\ started[1] = 2
    /\ AttachedBy(1) = <<[body |-> "png-A", by |-> 1], [body |-> "png-A", by |-> 1]>>
    /\ calls = {}

AtLimit(e) ==
    /\ services[e].config.maxScreenshots > 0
    /\ ScreenshotCount(e) >= services[e].config.maxScreenshots

\* C19: once the count has reached maxScreenshots, every captureScreenshot
\* call returns without fetching, attaching, warning or counting; the limit
\* stays reached through every step other than resetState, shouldCapture
\* staying callable; a resetState step leaves count 0, the limit not reached
\* and the capture decision as it was.
C19_TraceLifecycle ==
    /\ [][\A sf \in BOOLEAN :
            (AtLimit(1) /\ CaptureStart(1, sf))
            => /\ fetched' = fetched
               /\ calls' = {}
               /\ Sinks' = Sinks
               /\ warnings' = warnings
               /\ ScreenshotCount(1)' = ScreenshotCount(1)
               /\ last'.completion = "returned"
               /\ last'.why = IF ShouldCapture(1, sf) THEN "limit" ELSE "policy"]_vars
    /\ [][(AtLimit(1) /\ ~resetState(1)) => AtLimit(1)']_vars
    /\ [][(AtLimit(1) /\ resetState(1))
            => /\ ScreenshotCount(1)' = 0
               /\ ~AtLimit(1)'
               /\ \A sf \in BOOLEAN : ShouldCapture(1, sf)' = ShouldCapture(1, sf)]_vars
    /\ [](AtLimit(1) => \A sf \in BOOLEAN : ShouldCapture(1, sf) \in BOOLEAN)

C19_Witness ==
    /\ services[1].config.maxScreenshots = 1
    /\ started[1] = 3 /\ fetched[1] = 2
    /\ Len(AttachedBy(1)) = 2
    /\ ScreenshotCount(1) = 1
    /\ warnings = 0
    /\ last = [svc |-> 1, completion |-> "returned", why |-> "attached"]

FallbackTable(enable, info, stepFailed) ==
    CASE enable \in {"true", "on"}      -> TRUE
      [] enable = "retain-on-failure"   ->
            \/ stepFailed
            \/ (info.status # Undefined /\ info.status # "passed")
            \/ info.errors # <<>>
      [] OTHER                          -> FALSE

AmbientModeMissing ==
    \/ project.trace.kind = "undefined"
    \/ project.trace.mode \notin KnownTraceModes

\* C20 as stated: whenever the ambient trace mode is absent or not a
\* recognised mode, shouldCapture follows the engine's enableScreenshots.
C20_FallbackAnyForm ==
    \A e \in Services, sf \in BOOLEAN :
        AmbientModeMissing
        => ShouldCapture(e, sf) =
              FallbackTable(services[e].config.enableScreenshots,
                            testInfo[services[e].testInfo], sf)

\* C20 amended: the same, unless the host's trace configuration is an object
\* that carries a mode and screenshots: false.
C20_Fallback ==
    \A e \in Services, sf \in BOOLEAN :
        ( /\ AmbientModeMissing
          /\ ~( /\ project.trace.kind = "object"
                /\ project.trace.mode # Undefined
                /\ project.trace.screenshots = "false" ) )
        => ShouldCapture(e, sf) =
              FallbackTable(services[e].config.enableScreenshots,
                            testInfo[services[e].testInfo], sf)

C20_Witness ==
    /\ project.trace.kind = "string" /\ project.trace.mode = "retain-on-first-failure"
    /\ services[1].config.enableScreenshots = "retain-on-failure"
    /\ services[1].retryIndex = 2
    /\ testInfo[1].status = "passed" /\ testInfo[1].errors = <<>>
    /\ started[1] = 1 /\ fetched[1] = 0
    /\ last = [svc |-> 1, completion |-> "returned", why |-> "policy"]

\* C21 as stated: whenever the host's trace configuration has screenshots
\* explicitly false, in whatever form it is supplied, shouldCapture is false.
C21_ScreenshotsOffAnyForm ==
    \A e \in Services, sf \in BOOLEAN :
        project.trace.screenshots = "false" => ~ShouldCapture(e, sf)

\* C21 amended: the same for a trace configuration that carries a mode; an
\* object without a mode is an unknown format and follows the fallback policy.
C21_ScreenshotsOff ==
    \A e \in Services, sf \in BOOLEAN :
        /\ (project.trace.screenshots = "false" /\ project.trace.mode # Undefined)
              => ~ShouldCapture(e, sf)
        /\ (project.trace.kind = "object" /\ project.trace.mode = Undefined)
              => ShouldCapture(e, sf) =
                    FallbackTable(services[e].config.enableScreenshots,
                                  testInfo[services[e].testInfo], sf)

C21_Witness ==
    /\ project.trace = [kind |-> "object", mode |-> "on", screenshots |-> "false"]
    /\ services[1].config.enableScreenshots = "on"
    /\ testInfo[1].status = "failed"
    /\ started[1] = 1 /\ fetched[1] = 0
    /\ last = [svc |-> 1, completion |-> "returned", why |-> "policy"]

(***************************************************************************)
(* Specification of the policy with shouldCaptureScreenshot called         *)
(* directly, any number of times, between captureScreenshot calls.         *)
(***************************************************************************)
\* a shouldCaptureScreenshot that creates and counts on the attempt's record
shouldCaptureTouchesState(svcs, e) == CountScreenshot(svcs, e)

\* the engine after a shouldCaptureScreenshot call: the method and
\* isTestFailing only read config, retryIndex and testInfo
shouldCaptureLeaves(svcs, e) == svcs

Answer(b) == IF b THEN "true" ELSE "false"

\* shouldCaptureScreenshot(stepFailed) called directly; last records the
\* value it returned
shouldCapture(e, stepFailed) ==
    /\ e \in 1..Len(services)
    /\ calls = {}
    /\ services' = shouldCaptureLeaves(services, e)
    /\ last' = [svc |-> e, completion |-> "returned",
                why |-> Answer(ShouldCapture(e, stepFailed))]
    /\ UNCHANGED <<project, testInfo, serviceInstance, calls, started, fetched,
                   warnings, lastStep>>
    /\ UNCHANGED workerVars

NextPure ==
    \/ NextPolicy
    \/ \E sf \in BOOLEAN : shouldCapture(1, sf)

SpecPure == InitPolicy /\ [][NextPure]_vars

C23_InstrumentationOrdering ==
    /\ [](\A c \in calls :
            c.action # "direct"
            => /\ steps = {}
               /\ c.stepFailed = (c.action = "threw")
               /\ host.phase = "body" /\ host.stepCalls >= 1)
    /\ [][(calls # {} /\ calls' # {})
            => /\ lastStep' = lastStep
               /\ host'.phase = host.phase /\ host'.current = host.current]_vars
    /\ [][(calls # {} /\ calls' = {})
            => \E c \in calls : lastStep' = [action |-> c.action,
                                             outcome |-> IF c.action = "ok"
                                                         THEN "returned"
                                                         ELSE "threw-action"]]_vars
    /\ [][started' # started => (steps # {} /\ steps' = {})]_vars

C23_Witness ==
    /\ lastStep = [action |-> "threw", outcome |-> "threw-action"]
    /\ last = [svc |-> 1, completion |-> "returned", why |-> "attached"]
    /\ Len(testInfo[1].attachments) = 1
    /\ host.phase = "body" /\ host.current = 1 /\ host.stepCalls = 1
    /\ testInfo[1].status = "passed"
    /\ services[1].config.enableScreenshots = "retain-on-failure"
    /\ project.trace.kind = "undefined"
    /\ calls = {} /\ steps = {}

\* C24: the wrapper initializes an engine only when none is active, the
\* receiver exposes the hook and the host supplies the running attempt; an
\* active engine is used as it is and never replaced or re-initialized
\* before the device closes; and an action that ends with no engine
\* completes without a capture.
C24_LazyBootstrap ==
    /\ [][(serviceInstance' # serviceInstance /\ serviceInstance' # 0)
            => /\ serviceInstance = 0
               /\ host.current # 0
               /\ \E s \in steps : s \notin steps' /\ HasDevice(s.recv)
               /\ services'[serviceInstance'].testInfo = host.current
               /\ services'[serviceInstance'].retryIndex = testInfo[host.current].retry
               /\ device'.visualTraceService = serviceInstance']_vars
    /\ [][(serviceInstance # 0 /\ host'.phase # "closed")
            => /\ serviceInstance' = serviceInstance
               /\ Len(services') = Len(services)
               /\ services'[serviceInstance].config = services[serviceInstance].config
               /\ services'[serviceInstance].testInfo = services[serviceInstance].testInfo]_vars
    /\ [][(steps # {} /\ steps' = {} /\ serviceInstance' = 0)
            => /\ started' = started /\ fetched' = fetched
               /\ calls' = {}
               /\ Sinks' = Sinks
               /\ lastStep'.outcome \in {"returned", "threw-action"}]_vars

C24_Witness ==
    /\ host.current = 2 /\ host.phase = "body" /\ host.stepCalls = 1
    /\ serviceInstance = 1 /\ Len(services) = 1
    /\ services[1].testInfo = 1
    /\ started[1] = 2 /\ fetched[1] = 2
    /\ lastStep = [action |-> "ok", outcome |-> "returned"]
    /\ calls = {} /\ steps = {}

\* C25: a rejected provider notification is not propagated: the step in
\* which it settles leaves the cursor at the prepared key (prepare) or
\* cleared (finalize), decrements activeOperations, lets the hook complete as
\* after a fulfilled one and leaves the attempt's TestInfo alone; once the
\* hooks of an attempt are over nothing of a failed notification remains but
\* its warning.
C25_SyncFailureContained ==
    /\ [][\A op \in ops :
            SyncSettles(op, FALSE)
            => /\ op.kind = "prepare" => Cursor' = persistentKey(testInfo[op.ti])
               /\ op.kind = "finalize" => Cursor' = Undefined
               /\ op.lifecycle =>
                     /\ context'.activeOperations = context.activeOperations - 1
                     /\ host'.phase = IF op.kind = "prepare" THEN "body" ELSE "idle"
               /\ testInfo' = testInfo
               /\ synced' = synced]_vars
    /\ []((logged # {} /\ host.phase = "idle")
          => /\ Cursor = Undefined
             /\ context.activeOperations = 0
             /\ ops = {})

C25_Witness ==
    /\ logged = {"prepare", "finalize"}
    /\ host.phase = "idle"
    /\ Len(testInfo) = 1 /\ testInfo[1].status = "passed"
    /\ Len(synced) = 2
    /\ Cursor = Undefined
    /\ context.activeOperations = 0

Waiting == {w \in lifecycle.waiters : w.state = "waiting"}

\* C26: idlePromise and resolveIdle are both set or both unset and name the
\* same promise; a promise is pending only while activeOperations > 0; all
\* pending waiters await that one promise; they are released together, by
\* the step that brings the counter to 0 and clears the signal; a later
\* busy period gets a promise no earlier waiter awaited.
C26_SharedIdleSignal ==
    /\ [](context.idlePromise = context.resolveIdle)
    /\ [](context.idlePromise # 0 => context.activeOperations > 0)
    /\ [](\A w \in Waiting : w.promise # 0 /\ w.promise = context.idlePromise)
    /\ [][Waiting' # Waiting /\ Waiting \ Waiting' # {}
            => /\ Waiting' = {}
               /\ context'.activeOperations = 0
               /\ context.activeOperations = 1
               /\ context'.idlePromise = 0 /\ context'.resolveIdle = 0]_vars
    /\ [][(context.idlePromise = 0 /\ context'.idlePromise # 0)
            => \A w \in lifecycle.waiters : w.promise # context'.idlePromise]_vars

C26_Witness ==
    /\ \E w1, w2 \in Resolved : w1.id # w2.id /\ w1.promise = 1 /\ w2.promise = 1
    /\ \E w \in Waiting : w.promise = 2
    /\ context.idlePromise = 2 /\ context.resolveIdle = 2
    /\ context.activeOperations = 1

(***************************************************************************)
(* The context under a host in which every started operation settles       *)
(***************************************************************************)
SpecContextLive ==
    SpecContext /\ WF_vars(\E op \in ops, ok \in BOOLEAN : RunEnd(op, ok))

\* C27: if every started operation settles, fulfilled or rejected, every
\* waitForLifecycleToComplete call that is pending is eventually resolved.
C27_IdleLiveness ==
    \A id \in 1..MaxWaits :
        (\E w \in Waiting : w.id = id) ~> (\E w \in Resolved : w.id = id)

C27_Witness ==
    /\ lifecycle.started = MaxOps
    /\ InFlight = {}
    /\ Waiting = {}
    /\ \E w \in Resolved : w.k = 3 /\ w.pending = {1, 2, 3}
    /\ context = NewContext

(***************************************************************************)
(* The engine with overlapping calls: captureScreenshot is async, so a     *)
(* caller that does not await one call before making the next (two         *)
(* instrumented actions under Promise.all) has several calls suspended at  *)
(* takeScreenshot() at once.                                               *)
(***************************************************************************)
\* a captureScreenshot call made whatever calls are in flight
CaptureOverlapping(e, stepFailed) ==
    /\ e \in 1..Len(services)
    /\ CallsStarted < MaxCalls
    /\ BeginCapture(services, e, stepFailed, "direct")
    /\ UNCHANGED <<project, testInfo, serviceInstance>>
    /\ UNCHANGED workerVars

NextOverlap ==
    \/ \E e \in 1..MaxServices, sf \in BOOLEAN : CaptureOverlapping(e, sf)
    \/ \E c \in calls : FetchFails(c)
    \/ \E c \in calls, data \in Buffers : FetchReturns(c, data)
    \/ \E c \in calls : AttachReturns(c)
    \/ \E c \in calls : AttachFails(c)

SpecOverlap == Init /\ [][NextOverlap]_vars

\* C28: with overlapping captureScreenshot calls of one attempt, in every
\* reachable state screenshotCount <= maxScreenshots and the number of
\* attachments is at most maxScreenshots (for a positive maxScreenshots).
C28_QuotaUnderOverlap ==
    \A e \in Services :
        services[e].config.maxScreenshots >= 1
        => /\ ScreenshotCount(e) <= services[e].config.maxScreenshots
           /\ Len(AttachedBy(e)) <= services[e].config.maxScreenshots

\* C29: once the calls of a service have all returned, including calls whose
\* attach failed, getScreenshotCount() is the number of screenshots delivered
\* to the sink, and the seen hashes are those of the delivered screenshots
\* (a screenshot whose attach failed is not recorded as seen).
C29_CountMatchesAttachments ==
    \A e \in Services :
        Idle(e)
        => /\ ScreenshotCount(e) = Len(AttachedBy(e))
           /\ services[e].config.dedupe
              => SeenHashes(e) = {calculateHash(AttachedBy(e)[i].body) :
                                     i \in 1..Len(AttachedBy(e))}

(***************************************************************************)
(* Several Device objects and the one module-level serviceInstance         *)
(***************************************************************************)
\* clearVisualTraceService(): resetState on the active engine, then null
clearVisualTraceService(svcs, inst) ==
    IF inst # 0 THEN <<DeleteState(svcs, inst), 0>> ELSE <<svcs, inst>>

\* Device.initializeVisualTrace: a new engine becomes the singleton and the
\* device keeps a handle to it
initializeVisualTrace(d, ti) ==
    /\ d \in DOMAIN devices /\ ti \in DOMAIN testInfo
    /\ Len(services) < MaxServices
    /\ services' = Append(services,
                          NewService(ti, testInfo[ti].retry, project.visualTrace))
    /\ serviceInstance' = Len(services) + 1
    /\ devices' = [devices EXCEPT ![d] = Len(services) + 1]
    /\ UNCHANGED <<project, testInfo, calls, started, fetched, warnings, last,
                   lastStep, device, context, host, ops, synced, steps,
                   lifecycle, logged>>

\* Device.close after deleteSession: a device holding a handle clears the
\* singleton, whichever engine that is, and drops its handle
close(d) ==
    /\ d \in DOMAIN devices
    /\ IF devices[d] # 0
       THEN /\ services' = clearVisualTraceService(services, serviceInstance)[1]
            /\ serviceInstance' = clearVisualTraceService(services, serviceInstance)[2]
            /\ devices' = [devices EXCEPT ![d] = 0]
       ELSE UNCHANGED <<services, serviceInstance, devices>>
    /\ UNCHANGED <<project, testInfo, calls, started, fetched, warnings, last,
                   lastStep, device, context, host, ops, synced, steps,
                   lifecycle, logged>>

InitDevices ==
    /\ project \in [trace : {t \in TraceConfigs : t.kind = "undefined"},
                    visualTrace : {c \in PartialConfigs({"on"}, {MaxQuota}, {TRUE}) :
                                      "maxScreenshots" \in DOMAIN c}]
    /\ testInfo = <<NewTestInfo("t1", 0, "first"), NewTestInfo("t2", 0, "second")>>
    /\ services = <<>>
    /\ serviceInstance = 0
    /\ calls = {}
    /\ started = [e \in 1..MaxServices |-> 0]
    /\ fetched = [e \in 1..MaxServices |-> 0]
    /\ warnings = 0
    /\ last = NoCall
    /\ NoWorker

NextDevices ==
    \/ \E d \in 1..MaxDevices, ti \in DOMAIN testInfo : initializeVisualTrace(d, ti)
    \/ \E d \in 1..MaxDevices : close(d)
    \/ \E sf \in BOOLEAN : serviceInstance # 0 /\ CaptureStart(serviceInstance, sf)
    \/ \E c \in calls : FetchFails(c)
    \/ \E c \in calls, data \in Buffers : FetchReturns(c, data)
    \/ \E c \in calls : AttachReturns(c)
    \/ \E c \in calls : AttachFails(c)

SpecDevices == InitDevices /\ [][NextDevices]_vars

\* C30: closing a device clears the active engine and resets its attempt
\* state only if that engine was initialized by the device being closed; an
\* engine initialized later by another device stays active, with its
\* screenshot count and seen hashes unchanged.
C30_EngineOwnership ==
    [][\A d \in 1..MaxDevices :
          (close(d) /\ serviceInstance # 0)
          => IF devices[d] = serviceInstance
             THEN /\ serviceInstance' = 0
                  /\ StateOf(services', serviceInstance) = EmptyState
             ELSE /\ serviceInstance' = serviceInstance
                  /\ StateOf(services', serviceInstance) =
                        StateOf(services, serviceInstance)]_vars

====
